---- MODULE Spec2Model ----
(***************************************************************************)
(* Model of the two example programs, examples/rectangle/main.cpp and      *)
(* examples/triangle/main.cpp: main's initialisation sequence and render   *)
(* loop, ParseShader, CompileShader and CreateShader.  The graphics and    *)
(* windowing libraries are the environment: every call into them is an     *)
(* entry of the call log, and every result they return is a choice.        *)
(***************************************************************************)
EXTENDS Naturals, Integers, Sequences, FiniteSets, TLC

(* ---------------------------- bounds ----------------------------------- *)
\* longest file handed to ParseShader when it is exercised on its own
MaxLines == 4
\* longest file behind SHADER_PATH when the whole program runs
MaxPathLines == 2
\* most iterations of the render loop before the window is closed
MaxFrames == 2
\* object names the driver hands out are 1..MaxName
MaxName == 3

(* ---------------------------- text ------------------------------------- *)
\* a line is a sequence of characters; these are the words the parser looks for
kShader == <<"s", "h", "a", "d", "e", "r">>
kVertex == <<"v", "e", "r", "t", "e", "x">>
kFragment == <<"f", "r", "a", "g", "m", "e", "n", "t">>
kSpace == <<" ">>
kNewline == <<"\n">>

\* lines a shader file is made of: the usual markers, a marker naming no
\* stage, a fragment marker that also mentions the vertex stage, and two
\* content lines (one of them empty)
LinePool ==
    { kVertex \o kSpace \o kShader,
      kFragment \o kSpace \o kShader,
      kFragment \o kSpace \o kShader \o kSpace \o kVertex,
      kShader,
      <<"x">>,
      << >> }

\* files of at most n lines
Files(n) == UNION { [1..k -> LinePool] : k \in 0..n }

\* std::string::npos
npos == -1

\* std::string::find: the first position (from 0) at which word occurs in
\* line, npos when it occurs nowhere
Find(line, word) ==
    LET hits == { i \in 0..(Len(line) - Len(word)) :
                    SubSeq(line, i + 1, i + Len(word)) = word }
    IN IF hits = {} THEN npos
       ELSE CHOOSE i \in hits : \A j \in hits : i <= j

\* enum class ShaderType
NONE == -1
VERTEX == 0
FRAGMENT == 1

\* the test of line 171: the line is a marker line
IsMarker(line) == Find(line, kShader) # npos

\* the assignment a marker line makes to type (lines 173-180)
MarkerType(type, line) ==
    IF Find(line, kVertex) # npos THEN VERTEX
    ELSE IF Find(line, kFragment) # npos THEN FRAGMENT
    ELSE type

\* ss[i] << line << '\n'
StreamInsertNoNewline(buf, line) == buf \o line

StreamInsert(buf, line) == buf \o line \o kNewline

\* What ss[-1] << line << '\n' can do.  ss has two elements, so ss[-1] is
\* not an object: the write may touch nothing the program reads later
\* ("drop"), may fault ("fault"), or may land in either stream.
OutOfBoundsOutcomes == { "drop", "fault", "ss0", "ss1" }

(* ---------------------------- state ------------------------------------ *)
VARIABLES
    entry,        \* the function execution starts in: "main" or "ParseShader"
    example,      \* "rectangle" or "triangle"
    ndebug,       \* TRUE when the build defines NDEBUG (assert compiles away)
    pc,           \* position in the code
    exitStatus,   \* "running", "EXIT_SUCCESS", "EXIT_FAILURE", "SIGABRT", "SIGSEGV"
    calls,        \* log of the calls made so far, in order
    fileLines,    \* ParseShader: the lines of the file behind filePath
    streamGood,   \* ParseShader: the stream opened
    pos,          \* ParseShader: lines consumed by getline
    type,         \* ParseShader: type
    ss,           \* ParseShader: ss[0], ss[1]
    shaderSource, \* the ShaderSource ParseShader returned
    objects,      \* shader and program objects the driver created, in order
    programId,    \* CreateShader: programId
    vs,           \* CreateShader: vs
    fs,           \* CreateShader: fs
    shader,       \* main: shader
    frames        \* iterations of the render loop so far

parseVars == << fileLines, streamGood, pos, type, ss >>
glVars == << objects, programId, vs, fs, shader, frames >>
vars == << entry, example, ndebug, pc, exitStatus, calls, fileLines,
           streamGood, pos, type, ss, shaderSource, objects, programId, vs,
           fs, shader, frames >>

Call(fn, a, b) == [fn |-> fn, a |-> a, b |-> b]

EmptySource == [vertexShaderSource |-> << >>, fragmentShaderSource |-> << >>]

InitCommon ==
    /\ exitStatus = "running"
    /\ calls = << >>
    /\ fileLines = << >>
    /\ streamGood = FALSE
    /\ pos = 0
    /\ type = NONE
    /\ ss = [i \in {0, 1} |-> << >>]
    /\ shaderSource = EmptySource
    /\ objects = << >>
    /\ programId = 0
    /\ vs = 0
    /\ fs = 0
    /\ shader = 0
    /\ frames = 0

\* the process starts in main
Init ==
    /\ entry = "main"
    /\ example \in {"rectangle", "triangle"}
    /\ ndebug \in BOOLEAN
    /\ pc = "glfwInit"
    /\ InitCommon

\* ParseShader is called on its own
InitParse ==
    /\ entry = "ParseShader"
    /\ example = "rectangle"
    /\ ndebug = FALSE
    /\ pc = "ParseShader"
    /\ InitCommon

(* ---------------------------- ParseShader ------------------------------ *)
\* line 157: std::ifstream stream(filePath), and the locals of lines 165-167
ParseShaderCall ==
    /\ pc = "ParseShader"
    /\ \E f \in Files(IF entry = "main" THEN MaxPathLines ELSE MaxLines),
          good \in BOOLEAN :
          /\ fileLines' = f
          /\ streamGood' = good
          /\ calls' = Append(calls, Call("ParseShader", IF good THEN 1 ELSE 0, 0))
    /\ pos' = 0
    /\ type' = NONE
    /\ ss' = [i \in {0, 1} |-> << >>]
    /\ pc' = "getline"
    /\ UNCHANGED << entry, example, ndebug, exitStatus, shaderSource, glVars >>

\* getline(stream, line) of line 169 succeeds
GetLineOkIgnoringOpen == pos < Len(fileLines)

GetLineOk == streamGood /\ pos < Len(fileLines)

\* lines 169-186: one iteration of the loop
ParseLine ==
    /\ pc = "getline"
    /\ GetLineOk
    /\ LET line == fileLines[pos + 1] IN
         /\ pos' = pos + 1
         /\ IF IsMarker(line)
            THEN /\ type' = MarkerType(type, line)
                 /\ ss' = ss
                 /\ pc' = pc
                 /\ exitStatus' = exitStatus
            ELSE IF type \in {VERTEX, FRAGMENT}
            THEN /\ ss' = [ss EXCEPT ![type] = StreamInsert(ss[type], line)]
                 /\ type' = type
                 /\ pc' = pc
                 /\ exitStatus' = exitStatus
            ELSE \E outcome \in OutOfBoundsOutcomes :
                 /\ type' = type
                 /\ ss' = CASE outcome = "ss0" ->
                                 [ss EXCEPT ![0] = StreamInsert(ss[0], line)]
                            [] outcome = "ss1" ->
                                 [ss EXCEPT ![1] = StreamInsert(ss[1], line)]
                            [] OTHER -> ss
                 /\ pc' = IF outcome = "fault" THEN "exited" ELSE pc
                 /\ exitStatus' = IF outcome = "fault" THEN "SIGSEGV"
                                  ELSE exitStatus
    /\ UNCHANGED << entry, example, ndebug, calls, fileLines, streamGood,
                    shaderSource, glVars >>

\* line 187: getline failed, the two streams are returned
ParseShaderReturn ==
    /\ pc = "getline"
    /\ ~GetLineOk
    /\ shaderSource' = [vertexShaderSource |-> ss[0],
                        fragmentShaderSource |-> ss[1]]
    /\ IF entry = "main"
       THEN \* back in main the locals of ParseShader are gone
            /\ pc' = "CreateShader"
            /\ fileLines' = << >>
            /\ streamGood' = FALSE
            /\ pos' = 0
            /\ type' = NONE
            /\ ss' = [i \in {0, 1} |-> << >>]
       ELSE /\ pc' = "returned"
            /\ UNCHANGED parseVars
    /\ UNCHANGED << entry, example, ndebug, exitStatus, calls, glVars >>


(* ---------------------------- the driver ------------------------------- *)
GL_FALSE == 0
GL_TRUE == 1
GL_VERTEX_SHADER == 35633
GL_FRAGMENT_SHADER == 35632

\* names the driver may return from glCreateProgram / glCreateShader: 0 when
\* the object could not be created, else a name no undeleted object has
FreshNames ==
    {0} \cup { n \in 1..MaxName :
                 \A i \in 1..Len(objects) :
                     objects[i].name = n => objects[i].deletes > 0 }

Created(objs, kind, name) ==
    IF name = 0 THEN objs
    ELSE Append(objs, [kind |-> kind, name |-> name, deletes |-> 0])

\* glDeleteShader / glDeleteProgram: name 0 is ignored, any other name
\* counts against the newest object of that kind carrying the name
Deleted(objs, kind, name) ==
    LET hits == { i \in 1..Len(objs) : objs[i].name = name }
    IN IF name = 0 \/ hits = {} THEN objs
       ELSE LET last == CHOOSE i \in hits : \A j \in hits : j <= i
            IN IF objs[last].kind = kind
               THEN [objs EXCEPT ![last].deletes = @ + 1]
               ELSE objs

(* ---------------------------- CompileShader ---------------------------- *)
\* the value CompileShader returns (lines 208-222)
CompileShaderValueKeepsId(shaderId, result) == shaderId

CompileShaderValue(shaderId, result) ==
    IF result = GL_FALSE THEN 0 ELSE shaderId

\* the calls CompileShader makes, in order (lines 201-219)
CompileShaderCalls(stage, shaderId, result) ==
    << Call("glCreateShader", stage, shaderId),
       Call("glShaderSource", shaderId, 0),
       Call("glCompileShader", shaderId, result) >>
    \o IF result = GL_FALSE
       THEN << Call("glGetShaderInfoLog", shaderId, 0),
               Call("cout", stage, 0),
               Call("glDeleteShader", shaderId, 0) >>
       ELSE << >>

\* the shader objects after CompileShader (lines 201, 219)
CompileShaderObjectsLeaks(objs, shaderId, result) ==
    Created(objs, "shader", shaderId)

CompileShaderObjects(objs, shaderId, result) ==
    IF result = GL_FALSE
    THEN Deleted(Created(objs, "shader", shaderId), "shader", shaderId)
    ELSE Created(objs, "shader", shaderId)

\* results glGetShaderiv can leave in result: it starts as GL_FALSE and the
\* query of an object that does not exist writes nothing
CompileResults(shaderId) ==
    IF shaderId = 0 THEN {GL_FALSE} ELSE {GL_FALSE, GL_TRUE}

(* ---------------------------- CreateShader ----------------------------- *)
\* lines 124 and 235: main calls CreateShader, which creates the program
CreateShaderBegin ==
    /\ pc = "CreateShader"
    /\ \E id \in FreshNames :
          /\ programId' = id
          /\ objects' = Created(objects, "program", id)
          /\ calls' = calls \o
                << Call("CreateShader",
                        Len(shaderSource.vertexShaderSource),
                        Len(shaderSource.fragmentShaderSource)),
                   Call("glCreateProgram", id, 0) >>
    /\ pc' = "CompileVertex"
    /\ UNCHANGED << entry, example, ndebug, exitStatus, parseVars,
                    shaderSource, vs, fs, shader, frames >>

\* line 236
CompileVertex ==
    /\ pc = "CompileVertex"
    /\ \E id \in FreshNames : \E result \in CompileResults(id) :
          /\ vs' = CompileShaderValue(id, result)
          /\ objects' = CompileShaderObjects(objects, id, result)
          /\ calls' = calls \o CompileShaderCalls(GL_VERTEX_SHADER, id, result)
    /\ pc' = "CompileFragment"
    /\ UNCHANGED << entry, example, ndebug, exitStatus, parseVars,
                    shaderSource, programId, fs, shader, frames >>

\* line 237
CompileFragment ==
    /\ pc = "CompileFragment"
    /\ \E id \in FreshNames : \E result \in CompileResults(id) :
          /\ fs' = CompileShaderValue(id, result)
          /\ objects' = CompileShaderObjects(objects, id, result)
          /\ calls' = calls \o CompileShaderCalls(GL_FRAGMENT_SHADER, id, result)
    /\ pc' = "glAttachShader"
    /\ UNCHANGED << entry, example, ndebug, exitStatus, parseVars,
                    shaderSource, programId, vs, shader, frames >>

\* lines 239-242
LinkCalls(program, v, f) ==
    << Call("glAttachShader", program, v),
       Call("glAttachShader", program, f),
       Call("glLinkProgram", program, 0),
       Call("glValidateProgram", program, 0) >>

CreateShaderLink ==
    /\ pc = "glAttachShader"
    /\ calls' = calls \o LinkCalls(programId, vs, fs)
    /\ pc' = "glDeleteShader"
    /\ UNCHANGED << entry, example, ndebug, exitStatus, parseVars,
                    shaderSource, glVars >>

\* lines 244-247 and the assignment of line 124
CreateShaderReturn ==
    /\ pc = "glDeleteShader"
    /\ objects' = Deleted(Deleted(objects, "shader", vs), "shader", fs)
    /\ calls' = calls \o << Call("glDeleteShader", vs, 0),
                            Call("glDeleteShader", fs, 0) >>
    /\ shader' = programId
    /\ pc' = "glUseProgram"
    /\ UNCHANGED << entry, example, ndebug, exitStatus, parseVars,
                    shaderSource, programId, vs, fs, frames >>

(* ---------------------------- main ------------------------------------- *)
\* the process leaves main (or is killed) with the given status
Exit(status) ==
    /\ pc' = "exited"
    /\ exitStatus' = status

Continue(next) ==
    /\ pc' = next
    /\ exitStatus' = exitStatus

Flag(b) == IF b THEN 1 ELSE 0

\* lines 64-67
GlfwInit ==
    /\ pc = "glfwInit"
    /\ \E ok \in BOOLEAN :
          /\ calls' = Append(calls, Call("glfwInit", Flag(ok), 0))
          /\ IF ok THEN Continue("getenv") ELSE Exit("EXIT_FAILURE")
    /\ UNCHANGED << entry, example, ndebug, parseVars, shaderSource, glVars >>

\* where main goes after std::getenv (lines 70-74)
AfterGetenvIgnoringNull(set) == "glfwCreateWindow"

AfterGetenv(set) == IF set THEN "glfwCreateWindow" ELSE "exited"

\* lines 69-74
GetEnv ==
    /\ pc = "getenv"
    /\ \E set \in BOOLEAN :
          /\ calls' = Append(calls, Call("getenv", Flag(set), 0))
          /\ IF AfterGetenv(set) = "exited"
             THEN Exit("EXIT_FAILURE")
             ELSE Continue(AfterGetenv(set))
    /\ UNCHANGED << entry, example, ndebug, parseVars, shaderSource, glVars >>

\* lines 77-82
CreateWindow ==
    /\ pc = "glfwCreateWindow"
    /\ \E ok \in BOOLEAN :
          IF ok
          THEN /\ calls' = Append(calls, Call("glfwCreateWindow", 1, 0))
               /\ Continue("glewInit")
          ELSE /\ calls' = calls \o << Call("glfwCreateWindow", 0, 0),
                                       Call("glfwTerminate", 0, 0) >>
               /\ Exit("EXIT_FAILURE")
    /\ UNCHANGED << entry, example, ndebug, parseVars, shaderSource, glVars >>

\* lines 85-90
GlewInit ==
    /\ pc = "glewInit"
    /\ \E ok \in BOOLEAN :
          /\ calls' = calls \o << Call("glfwMakeContextCurrent", 0, 0),
                                  Call("glewInit", Flag(ok), 0) >>
          /\ IF ok THEN Continue("glBufferData") ELSE Exit("EXIT_FAILURE")
    /\ UNCHANGED << entry, example, ndebug, parseVars, shaderSource, glVars >>

\* sizeof(float), sizeof(uint32_t)
SizeofFloat == 4
SizeofUint32 == 4

\* number of floats in positions (rectangle lines 93-98, triangle lines 64-68)
PositionsLen(ex) == IF ex = "rectangle" THEN 8 ELSE 6

\* the size argument of the glBufferData call that uploads positions
\* (rectangle line 110, triangle line 73)
PositionsUploadBytes(ex) ==
    IF ex = "rectangle" THEN 6 * 2 * SizeofFloat ELSE 6 * SizeofFloat

\* rectangle lines 101-104
indices == << 0, 1, 2, 2, 3, 0 >>

\* the size argument of rectangle line 119
IndicesUploadBytes == 6 * SizeofUint32

\* floats per vertex, the size argument of glVertexAttribPointer (line 113)
FloatsPerVertex == 2

\* the glBufferData calls of main, each with the byte count passed and the
\* byte size of the array read
UploadCalls(ex) ==
    << Call("glBufferData", PositionsUploadBytes(ex),
            PositionsLen(ex) * SizeofFloat) >>
    \o IF ex = "rectangle"
       THEN << Call("glBufferData", IndicesUploadBytes,
                    Len(indices) * SizeofUint32) >>
       ELSE << >>

\* an upload reads past the end of its array
ReadsPastEnd(ex) ==
    \E i \in 1..Len(UploadCalls(ex)) :
        UploadCalls(ex)[i].a > UploadCalls(ex)[i].b

\* lines 92-119.  A read past the end of positions either returns whatever
\* follows the array or faults.
UploadBuffers ==
    /\ pc = "glBufferData"
    /\ calls' = calls \o UploadCalls(example)
    /\ \E fault \in (IF ReadsPastEnd(example) THEN BOOLEAN ELSE {FALSE}) :
          IF fault THEN Exit("SIGSEGV") ELSE Continue("ParseShader")
    /\ UNCHANGED << entry, example, ndebug, parseVars, shaderSource, glVars >>

\* line 125
UseProgram ==
    /\ pc = "glUseProgram"
    /\ calls' = Append(calls, Call("glUseProgram", shader, 0))
    /\ pc' = "glfwWindowShouldClose"
    /\ UNCHANGED << entry, example, ndebug, exitStatus, parseVars,
                    shaderSource, glVars >>

\* GL_CALL (rectangle lines 12-15) wraps the draw call of the rectangle
\* example only; its assert ends the process unless NDEBUG is defined
DrawAborts(ex, nd, glError) == ex = "rectangle" /\ ~nd /\ glError

\* lines 128-140: the window is still open, one frame is drawn
RenderFrame ==
    /\ pc = "glfwWindowShouldClose"
    /\ frames < MaxFrames
    /\ \E glError \in BOOLEAN :
          /\ calls' = calls \o << Call("glfwWindowShouldClose", 0, 0),
                                  Call("draw", Flag(glError), 0) >>
          /\ IF DrawAborts(example, ndebug, glError)
             THEN /\ Exit("SIGABRT")
                  /\ frames' = frames
             ELSE /\ Continue("glfwWindowShouldClose")
                  /\ frames' = frames + 1
    /\ UNCHANGED << entry, example, ndebug, parseVars, shaderSource, objects,
                    programId, vs, fs, shader >>

\* lines 128 and 142-145: the window was closed
WindowClosed ==
    /\ pc = "glfwWindowShouldClose"
    /\ calls' = calls \o << Call("glfwWindowShouldClose", 1, 0),
                            Call("glDeleteProgram", shader, 0),
                            Call("glfwTerminate", 0, 0) >>
    /\ objects' = Deleted(objects, "program", shader)
    /\ Exit("EXIT_SUCCESS")
    /\ UNCHANGED << entry, example, ndebug, parseVars, shaderSource,
                    programId, vs, fs, shader, frames >>

Next ==
    \/ GlfwInit
    \/ GetEnv
    \/ CreateWindow
    \/ GlewInit
    \/ UploadBuffers
    \/ ParseShaderCall
    \/ ParseLine
    \/ ParseShaderReturn
    \/ CreateShaderBegin
    \/ CompileVertex
    \/ CompileFragment
    \/ CreateShaderLink
    \/ CreateShaderReturn
    \/ UseProgram
    \/ RenderFrame
    \/ WindowClosed

Spec == Init /\ [][Next]_vars

NextParse ==
    \/ ParseShaderCall
    \/ ParseLine
    \/ ParseShaderReturn

SpecParse == InitParse /\ [][NextParse]_vars
(* ---------------------------- properties ------------------------------- *)
\* word occurs somewhere in line
Contains(line, word) ==
    \E i \in 1..(Len(line) + 1) :
        /\ i + Len(word) - 1 <= Len(line)
        /\ SubSeq(line, i, i + Len(word) - 1) = word

RECURSIVE Join(_)
\* the lines in order, each followed by one newline
Join(lines) ==
    IF lines = << >> THEN << >>
    ELSE Head(lines) \o kNewline \o Join(Tail(lines))

HasCall(c) == \E i \in 1..Len(calls) : calls[i] = c
HasCallTo(fn) == \E i \in 1..Len(calls) : calls[i].fn = fn
CountCallsTo(fn) == Cardinality({ i \in 1..Len(calls) : calls[i].fn = fn })

\* f is: a "vertex shader" line, lines without "shader", a "fragment shader"
\* line at position k, lines without "shader"
MarkedFile(f, k) ==
    /\ k \in 2..Len(f)
    /\ Contains(f[1], kVertex \o kSpace \o kShader)
    /\ Contains(f[k], kFragment \o kSpace \o kShader)
    /\ \A i \in 1..Len(f) : i \notin {1, k} => ~Contains(f[i], kShader)

SplitAt(f, k) ==
    /\ shaderSource.vertexShaderSource = Join(SubSeq(f, 2, k - 1))
    /\ shaderSource.fragmentShaderSource = Join(SubSeq(f, k + 1, Len(f)))

\* C1 as stated: for every readable file made of a "vertex shader" line, N
\* lines without "shader", a "fragment shader" line and M lines without
\* "shader", ParseShader returns the N lines, each followed by a newline,
\* as the vertex source and the M lines likewise as the fragment source.
C1_SplitsMarkedFile ==
    (pc = "returned" /\ streamGood) =>
        \A k \in 2..Len(fileLines) :
            MarkedFile(fileLines, k) => SplitAt(fileLines, k)

\* C1 as amended: the same, for files whose "fragment shader" line does not
\* also contain "vertex" (such a line selects the vertex source, line 173).
C1_SplitsMarkedFileNoVertexInFragmentMarker ==
    (pc = "returned" /\ streamGood) =>
        \A k \in 2..Len(fileLines) :
            (MarkedFile(fileLines, k) /\ ~Contains(fileLines[k], kVertex))
                => SplitAt(fileLines, k)

C1_Witness ==
    /\ pc = "returned"
    /\ streamGood
    /\ Len(fileLines) = 4
    /\ MarkedFile(fileLines, 3)
    /\ ~Contains(fileLines[3], kVertex)
    /\ fileLines[2] # << >>
    /\ fileLines[4] # << >>
    /\ shaderSource.vertexShaderSource = fileLines[2] \o kNewline
    /\ shaderSource.fragmentShaderSource = fileLines[4] \o kNewline

\* C2: while type is NONE, a line without "shader" is dropped: the step
\* that reads it changes neither stream nor any other state of the program
\* (only the read position moves on).
C2_LeadingLinesDropped ==
    [][ ( /\ pc = "getline"
          /\ streamGood
          /\ pos < Len(fileLines)
          /\ type = NONE
          /\ ~Contains(fileLines[pos + 1], kShader) )
        => ( /\ ss' = ss
             /\ type' = type
             /\ shaderSource' = shaderSource
             /\ exitStatus' = exitStatus
             /\ pc' = pc ) ]_vars

\* C3: for a file none of whose lines contains "shader", ParseShader
\* returns, and both sources it returns are empty.
C3_NoMarkerEmptySources ==
    (\A i \in 1..Len(fileLines) : ~Contains(fileLines[i], kShader)) =>
        /\ exitStatus = "running"
        /\ pc = "returned" => shaderSource = EmptySource

\* C7: a line containing "shader" changes no stream and sets type to VERTEX
\* if it contains "vertex", else to FRAGMENT if it contains "fragment", else
\* leaves it; a line without "shader" leaves type alone and is appended with
\* a newline to the selected stream only (to none when none is selected).
C7_LineEffect ==
    [][ (pc = "getline" /\ streamGood /\ pos < Len(fileLines)) =>
        LET line == fileLines[pos + 1] IN
        IF Contains(line, kShader)
        THEN /\ ss' = ss
             /\ type' = IF Contains(line, kVertex) THEN VERTEX
                        ELSE IF Contains(line, kFragment) THEN FRAGMENT
                        ELSE type
        ELSE /\ type' = type
             /\ ss' = [i \in {0, 1} |->
                         IF i = type THEN ss[i] \o line \o kNewline
                         ELSE ss[i]] ]_vars

\* one of the four initialisation steps of main failed
InitFailed ==
    \/ HasCall(Call("glfwInit", 0, 0))
    \/ HasCall(Call("getenv", 0, 0))
    \/ HasCall(Call("glfwCreateWindow", 0, 0))
    \/ HasCall(Call("glewInit", 0, 0))

\* C4: the exit status is success only after the render loop saw the window
\* closed; when glfwInit, getenv, glfwCreateWindow or glewInit fails the
\* status is failure and ParseShader, CreateShader and the render loop were
\* never reached.
C4_ExitStatus ==
    /\ exitStatus = "EXIT_SUCCESS" =>
          HasCall(Call("glfwWindowShouldClose", 1, 0))
    /\ InitFailed =>
          /\ pc = "exited"
          /\ exitStatus = "EXIT_FAILURE"
          /\ ~HasCallTo("ParseShader")
          /\ ~HasCallTo("CreateShader")
          /\ ~HasCallTo("glfwWindowShouldClose")

C4_Witness ==
    /\ HasCall(Call("glfwInit", 1, 0))
    /\ HasCall(Call("getenv", 0, 0))
    /\ exitStatus = "EXIT_FAILURE"

\* CreateShader has returned to main
CreateShaderReturned ==
    HasCallTo("CreateShader") /\ pc \in {"glUseProgram", "glfwWindowShouldClose", "exited"}

\* the handle CreateShader holds for a stage
StageHandle(stage) == IF stage = GL_VERTEX_SHADER THEN vs ELSE fs

\* C5: a failed compile is followed by the diagnostic, the deletion of the
\* shader object and the handle 0 for that stage; CreateShader goes on to
\* attach both handles, link and validate, and returns the name it got
\* from glCreateProgram.
C5_CompileFailureContinues ==
    /\ \A i \in 1..Len(calls) :
          (calls[i].fn = "glCompileShader" /\ calls[i].b = GL_FALSE) =>
              /\ i + 3 <= Len(calls)
              /\ calls[i + 2].fn = "cout"
              /\ calls[i + 3] = Call("glDeleteShader", calls[i].a, 0)
              /\ calls[i - 2].fn = "glCreateShader"
              /\ StageHandle(calls[i - 2].a) = 0
    /\ CreateShaderReturned =>
          \E c \in 1..Len(calls) :
              /\ calls[c].fn = "glCreateProgram"
              /\ shader = calls[c].a
              /\ \E j \in (c + 1)..Len(calls) :
                    /\ j + 3 <= Len(calls)
                    /\ SubSeq(calls, j, j + 3) = LinkCalls(calls[c].a, vs, fs)

C5_Witness ==
    /\ pc = "glUseProgram"
    /\ shader # 0
    /\ vs = 0
    /\ fs # 0
    /\ \E i \in 1..Len(calls) :
          /\ calls[i].fn = "glCompileShader"
          /\ calls[i].a # 0
          /\ calls[i].b = GL_FALSE

\* C6: CreateShader attaches both stages, links, validates, then deletes
\* both stage objects; no shader object is ever deleted twice and each has
\* been deleted once when CreateShader returns; the program object is
\* deleted once, after the render loop ended and before glfwTerminate, and
\* not before.
C6_ObjectLifetimes ==
    /\ \A i \in 1..Len(objects) :
          /\ objects[i].kind = "shader" =>
                /\ objects[i].deletes <= 1
                /\ CreateShaderReturned => objects[i].deletes = 1
          /\ objects[i].kind = "program" =>
                objects[i].deletes = IF exitStatus = "EXIT_SUCCESS" THEN 1 ELSE 0
    /\ CreateShaderReturned =>
          \E j \in 1..Len(calls) :
              /\ j + 5 <= Len(calls)
              /\ SubSeq(calls, j, j + 5) =
                    LinkCalls(programId, vs, fs)
                    \o << Call("glDeleteShader", vs, 0),
                          Call("glDeleteShader", fs, 0) >>
    /\ IF exitStatus = "EXIT_SUCCESS"
       THEN /\ Len(calls) >= 3
            /\ SubSeq(calls, Len(calls) - 2, Len(calls)) =
                  << Call("glfwWindowShouldClose", 1, 0),
                     Call("glDeleteProgram", shader, 0),
                     Call("glfwTerminate", 0, 0) >>
            /\ CountCallsTo("glDeleteProgram") = 1
       ELSE CountCallsTo("glDeleteProgram") = 0

C6_Witness ==
    /\ exitStatus = "EXIT_SUCCESS"
    /\ frames > 0
    /\ Len(objects) = 3
    /\ vs = 0
    /\ fs # 0
    /\ \A i \in 1..Len(objects) : objects[i].deletes = 1

\* C8: when the file cannot be opened ParseShader returns two empty sources
\* and main goes on as usual: CreateShader is called with the two empty
\* sources, its program is used, the render loop is entered, and the process
\* does not exit with failure.
C8_UnopenableFileProceeds ==
    HasCall(Call("ParseShader", 0, 0)) =>
        /\ shaderSource = EmptySource
        /\ exitStatus # "EXIT_FAILURE"
        /\ pc \in {"getline", "CreateShader", "CompileVertex", "CompileFragment",
                   "glAttachShader", "glDeleteShader", "glUseProgram",
                   "glfwWindowShouldClose", "exited"}
        /\ pc \notin {"getline", "CreateShader"} =>
              HasCall(Call("CreateShader", 0, 0))
        /\ pc \in {"glfwWindowShouldClose", "exited"} =>
              HasCall(Call("glUseProgram", shader, 0))
        /\ pc = "exited" => HasCallTo("glfwWindowShouldClose")

C8_Witness ==
    /\ HasCall(Call("ParseShader", 0, 0))
    /\ HasCall(Call("CreateShader", 0, 0))
    /\ pc = "glfwWindowShouldClose"
    /\ frames > 0

\* C9: whenever main returns after glfwInit succeeded, glfwTerminate has
\* been called exactly once.
C9_TerminateOnEveryReturn ==
    ( /\ pc = "exited"
      /\ exitStatus \in {"EXIT_SUCCESS", "EXIT_FAILURE"}
      /\ HasCall(Call("glfwInit", 1, 0)) )
    => CountCallsTo("glfwTerminate") = 1

\* C10: every upload passes the byte size of the array it reads, and every
\* index of the rectangle names one of the vertices held in positions.
C10_UploadSizes ==
    /\ \A i \in 1..Len(calls) :
          calls[i].fn = "glBufferData" => calls[i].a = calls[i].b
    /\ example = "rectangle" =>
          \A k \in 1..Len(indices) :
              indices[k] * FloatsPerVertex < PositionsLen(example)

====
